---- MODULE Spec2Model ----
(***************************************************************************)
(* Matching and settlement engine of market-sim: the OrderBook             *)
(* (src/environment/order_book.py), the Environment                        *)
(* (src/environment/environment.py) and the threads of the MarketServer    *)
(* (src/server/market_server.py).                                          *)
(*                                                                         *)
(* Python lists are sequences; a Python index p is the sequence index p+1. *)
(* Prices are integers (the source uses floats; the model keeps the        *)
(* arithmetic exact).                                                      *)
(***************************************************************************)
EXTENDS Integers, Sequences, FiniteSets, TLC

\* ------------------------------------------------------------------ bounds
\* Prices offered by clients: 1..MaxPrice.
MaxPrice == 2
\* Volumes offered by clients: 1..MaxQty.
MaxQty == 2
\* place_order calls made on the standalone book.
MaxOrders == 3
\* submit_order calls made on the Environment.
MaxSubmits == 2
\* reset() calls made on the Environment.
MaxResets == 1
\* submit_order calls made on the Environment in a sweep.
MaxSweepSubmits == 3
\* tick() calls made on the Environment.
MaxTicks == 2
\* Order objects the Environment's ticks create.
MaxDraws == 4
\* place_order calls made on the standalone book when all name one price.
MaxLevelOrders == 4
\* Messages the connections receive when they trade and ask for their state.
MaxAccountMessages == 3
\* Messages the connections receive.
MaxMessages == 2

\* The messages two clients that use one participant id send.
MaxRegisterMessages == 3

\* ------------------------------------------------------- program constants
\* OrderBook.current_tick is None and is never assigned: the stamp of a trade
\* as the book produces it.
NoTick == -1

\* OrderBook(symbol=None) names itself "UNKNOWN".
DefaultSymbol == "UNKNOWN"

\* agent_id values: "" is place_order's default.
Agents == {"", "A", "B"}

Sides == {"buy", "sell"}

Prices == 1..MaxPrice

Quantities == 1..MaxQty

\* order_id = str(uuid.uuid4()). Two order ids are compared only to break a
\* tie between equal sort_index values, that is between two orders that drew
\* the same time.time() value, so an order id is modelled as
\* <<timestamp, rank>>: the draw chooses where the new uuid falls among the
\* uuids already drawn at that timestamp, every position being possible, and
\* the rank is the midpoint of the gap chosen (the ranks lie in 1..UuidSpan-1).
UuidSpan == 2 ^ (MaxOrders + MaxDraws)

\* The order ids a draw at time ts can return, given the ids drawn so far.
FreshUuids(ts, drawn) ==
    LET marks == {u[2] : u \in {v \in drawn : v[1] = ts}} \cup {0, UuidSpan}
        gaps == {g \in marks \X marks :
                    /\ g[1] < g[2]
                    /\ ~\E m \in marks : g[1] < m /\ m < g[2]}
    IN  {<<ts, (g[1] + g[2]) \div 2>> : g \in gaps}

\* The values time.time() can return when last was returned before: the
\* clock does not go back, and two calls may read the same value. The
\* first value drawn equals no earlier one.
ClockReads(last, drawn) ==
    IF drawn = {} THEN {last + 1} ELSE {last, last + 1}

\* ---------------------------------------------------------------- Order
\* Order.__post_init__: sort_index = (-price, timestamp) for a buy,
\* (price, timestamp) otherwise.
SortPrice(o) ==
    IF o.side = "buy" THEN 0 - o.price ELSE o.price

\* A sort_index whose timestamp is negated: the later order first.
SortTimeNegated(o) ==
    0 - o.timestamp

\* The second component of sort_index.
SortTime(o) ==
    o.timestamp

\* dataclass(order=True): orders compare as the tuples of their fields,
\* sort_index first and order_id second; order_id is unique, so no later
\* field is ever reached.
OrderLess(a, b) ==
    \/ SortPrice(a) < SortPrice(b)
    \/ /\ SortPrice(a) = SortPrice(b)
       /\ SortTime(a) < SortTime(b)
    \/ /\ SortPrice(a) = SortPrice(b)
       /\ SortTime(a) = SortTime(b)
       /\ a.order_id[2] < b.order_id[2]

\* Order(agent_id=, side=, price=, quantity=, order_type=) with the uuid and
\* the time.time() value it draws.
NewOrder(id, agent, side, price, volume, kind, ts) ==
    [order_id |-> id, agent_id |-> agent, side |-> side, price |-> price,
     quantity |-> volume, order_type |-> kind, timestamp |-> ts]

\* ----------------------------------------------------------------- heapq
RECURSIVE SiftDown(_, _, _, _)
\* heapq._siftdown(heap, startpos, pos), newitem being the item moved.
SiftDown(heap, newitem, startpos, pos) ==
    IF pos > startpos
    THEN LET parentpos == (pos - 1) \div 2
             parent == heap[parentpos + 1]
         IN  IF OrderLess(newitem, parent)
             THEN SiftDown([heap EXCEPT ![pos + 1] = parent], newitem,
                           startpos, parentpos)
             ELSE [heap EXCEPT ![pos + 1] = newitem]
    ELSE [heap EXCEPT ![pos + 1] = newitem]

RECURSIVE SiftUp(_, _, _, _)
\* heapq._siftup(heap, pos): the smaller child is moved up until a leaf is
\* reached, then newitem is sifted down from there.
SiftUp(heap, newitem, startpos, pos) ==
    LET endpos == Len(heap)
        childpos == 2 * pos + 1
        rightpos == childpos + 1
    IN  IF childpos < endpos
        THEN LET c == IF rightpos < endpos
                         /\ ~OrderLess(heap[childpos + 1], heap[rightpos + 1])
                      THEN rightpos
                      ELSE childpos
             IN  SiftUp([heap EXCEPT ![pos + 1] = heap[c + 1]], newitem,
                        startpos, c)
        ELSE SiftDown(heap, newitem, startpos, pos)

\* heapq.heappush(heap, item)
HeapPush(heap, item) ==
    SiftDown(Append(heap, item), item, 0, Len(heap))

\* The heap left by heapq.heappop(heap); the item returned is heap[1].
HeapPop(heap) ==
    LET lastelt == heap[Len(heap)]
        rest == SubSeq(heap, 1, Len(heap) - 1)
    IN  IF rest = << >> THEN << >> ELSE SiftUp(rest, lastelt, 0, 0)

\* A restore that pushes nothing back: the skipped orders are lost.
PushNone(heap, items) ==
    heap

RECURSIVE PushAll(_, _)
\* for o in skipped: heapq.heappush(opposite, o)
PushAll(heap, items) ==
    IF items = << >> THEN heap
    ELSE PushAll(HeapPush(heap, Head(items)), Tail(items))

\* ----------------------------------------------------------------- Trade
\* The Trade of an incoming order against the resting order best.
MakeTrade(incoming, best, price, vol, symbol) ==
    [price |-> price, volume |-> vol, symbol |-> symbol,
     buyer |-> IF incoming.side = "buy" THEN incoming.agent_id ELSE best.agent_id,
     seller |-> IF incoming.side = "buy" THEN best.agent_id ELSE incoming.agent_id,
     buyer_order |-> IF incoming.side = "buy" THEN incoming.order_id ELSE best.order_id,
     seller_order |-> IF incoming.side = "buy" THEN best.order_id ELSE incoming.order_id,
     time |-> NoTick]

\* A traded volume that is all the incoming order still wants.
MinIncoming(a, b) ==
    a

Min(a, b) ==
    IF a < b THEN a ELSE b

\* ------------------------------------------------------------- OrderBook
\* OrderBook.__init__
EmptyBook ==
    [bids |-> << >>, asks |-> << >>, trades |-> << >>]

\* opposite = self.asks if incoming.side == "buy" else self.bids
Opposite(book, side) ==
    IF side = "buy" THEN book.asks ELSE book.bids

\* The book with its opposite heap (an alias in the source) replaced.
WithOpposite(book, side, heap) ==
    IF side = "buy" THEN [book EXCEPT !.asks = heap]
    ELSE [book EXCEPT !.bids = heap]

\* _add_to_book
AddToBook(book, order) ==
    IF order.side = "buy"
    THEN [book EXCEPT !.bids = HeapPush(book.bids, order)]
    ELSE [book EXCEPT !.asks = HeapPush(book.asks, order)]

\* The self-trade test of _match_against: both ids non-empty and equal.
IsSelfTrade(incoming, best) ==
    /\ incoming.agent_id # ""
    /\ best.agent_id # ""
    /\ best.agent_id = incoming.agent_id

\* A crossing test that never breaks.
CrossesAny(incoming, best) ==
    TRUE

\* The crossing test of _match_against: FALSE is its break.
Crosses(incoming, best) ==
    /\ ~(incoming.side = "buy" /\ incoming.price < best.price)
    /\ ~(incoming.side = "sell" /\ incoming.price > best.price)

\* A limit trade priced at the resting order.
LimitTradePriceResting(incoming, best) ==
    best.price

\* trade_price = incoming.price
LimitTradePrice(incoming, best) ==
    incoming.price

\* A market trade priced at the market order's own price field.
MarketTradePriceOwn(order, best) ==
    order.price

\* trade_price = best.price
MarketTradePrice(order, best) ==
    best.price

RECURSIVE MatchLoop(_, _, _, _, _)
\* The while loop of _match_against and the restore of the skipped orders
\* after it: [opposite, quantity, trades].
MatchLoop(incoming, symbol, opposite, skipped, trades) ==
    IF incoming.quantity > 0 /\ opposite # << >>
    THEN LET best == opposite[1]
         IN  IF IsSelfTrade(incoming, best)
             THEN MatchLoop(incoming, symbol, HeapPop(opposite),
                            Append(skipped, best), trades)
             ELSE IF ~Crosses(incoming, best)
             THEN [opposite |-> PushAll(opposite, skipped),
                   quantity |-> incoming.quantity, trades |-> trades]
             ELSE LET popped == HeapPop(opposite)
                      traded_vol == Min(incoming.quantity, best.quantity)
                      t == MakeTrade(incoming, best,
                                     LimitTradePrice(incoming, best),
                                     traded_vol, symbol)
                      best2 == [best EXCEPT !.quantity = @ - traded_vol]
                      inc2 == [incoming EXCEPT !.quantity = @ - traded_vol]
                      opp2 == IF best2.quantity > 0
                              THEN HeapPush(popped, best2) ELSE popped
                 IN  MatchLoop(inc2, symbol, opp2, skipped, Append(trades, t))
    ELSE [opposite |-> PushAll(opposite, skipped),
          quantity |-> incoming.quantity, trades |-> trades]

\* The book a matching loop leaves: the opposite heap is the one the loop
\* worked on, and self.trades.extend(trades).
Matched(book, side, r) ==
    [book |-> [WithOpposite(book, side, r.opposite) EXCEPT
                 !.trades = @ \o r.trades],
     quantity |-> r.quantity, trades |-> r.trades]

\* _match_against: [book, quantity, trades], quantity being what is left of
\* the incoming order.
MatchAgainst(book, symbol, incoming) ==
    Matched(book, incoming.side,
            MatchLoop(incoming, symbol, Opposite(book, incoming.side),
                      << >>, << >>))

\* A remainder that is added to the book whatever its quantity.
RestAlways(m, order) ==
    [book |-> AddToBook(m.book, [order EXCEPT !.quantity = m.quantity]),
     trades |-> m.trades]

\* if order.quantity > 0: self._add_to_book(order), m being what
\* _match_against left.
RestRemainder(m, order) ==
    [book |-> IF m.quantity > 0
              THEN AddToBook(m.book, [order EXCEPT !.quantity = m.quantity])
              ELSE m.book,
     trades |-> m.trades]

\* _place_limit_order: [book, trades]
PlaceLimitOrder(book, symbol, order) ==
    RestRemainder(MatchAgainst(book, symbol, order), order)

RECURSIVE MarketLoop(_, _, _, _)
\* The while loop of _execute_market_order: [opposite, quantity, trades].
MarketLoop(order, symbol, opposite, trades) ==
    IF order.quantity > 0 /\ opposite # << >>
    THEN LET best == opposite[1]
             popped == HeapPop(opposite)
             traded_vol == Min(order.quantity, best.quantity)
             t == MakeTrade(order, best, MarketTradePrice(order, best),
                            traded_vol, symbol)
             best2 == [best EXCEPT !.quantity = @ - traded_vol]
             ord2 == [order EXCEPT !.quantity = @ - traded_vol]
             opp2 == IF best2.quantity > 0
                     THEN HeapPush(popped, best2) ELSE popped
         IN  MarketLoop(ord2, symbol, opp2, Append(trades, t))
    ELSE [opposite |-> opposite, quantity |-> order.quantity,
          trades |-> trades]

\* _execute_market_order: [book, quantity, trades], quantity being
\* "unfilled".
ExecuteMarketOrder(book, symbol, order) ==
    Matched(book, order.side,
            MarketLoop(order, symbol, Opposite(book, order.side), << >>))

\* A market order whose unfilled remainder is added to the book.
PlaceMarketOrderResting(book, symbol, order) ==
    RestRemainder(ExecuteMarketOrder(book, symbol, order), order)

\* result["trades"] of what _execute_market_order returned, and the book.
MarketResult(r) ==
    [book |-> r.book, trades |-> r.trades]

\* _place_market_order; place_order keeps result["trades"].
PlaceMarketOrder(book, symbol, order) ==
    MarketResult(ExecuteMarketOrder(book, symbol, order))

\* place_order: [book, trades, raised]; raised is its ValueError.
PlaceOrder(book, symbol, order) ==
    IF order.order_type = "limit"
    THEN [raised |-> FALSE] @@ PlaceLimitOrder(book, symbol, order)
    ELSE IF order.order_type = "market"
    THEN [raised |-> FALSE] @@ PlaceMarketOrder(book, symbol, order)
    ELSE [book |-> book, trades |-> << >>, raised |-> TRUE]

RECURSIVE LastMaxPrice(_, _, _)
\* A max that keeps the last of the orders with the highest price.
LastMaxPrice(orders, i, cur) ==
    IF i > Len(orders) THEN cur
    ELSE LastMaxPrice(orders, i + 1,
                      IF orders[i].price >= orders[cur].price THEN i ELSE cur)

RECURSIVE FirstMaxPrice(_, _, _)
\* max(orders, key=lambda o: o.price): the index of the first order of the
\* list with the highest price, scanning from index i with cur the best so far.
FirstMaxPrice(orders, i, cur) ==
    IF i > Len(orders) THEN cur
    ELSE FirstMaxPrice(orders, i + 1,
                       IF orders[i].price > orders[cur].price THEN i ELSE cur)

RECURSIVE FirstMinPrice(_, _, _)
\* min(orders, key=lambda o: o.price): the first order with the lowest price.
FirstMinPrice(orders, i, cur) ==
    IF i > Len(orders) THEN cur
    ELSE FirstMinPrice(orders, i + 1,
                       IF orders[i].price < orders[cur].price THEN i ELSE cur)

\* best_bid(): << >> is None, otherwise the one order returned.
BestBid(book) ==
    IF book.bids = << >> THEN << >>
    ELSE << book.bids[FirstMaxPrice(book.bids, 1, 1)] >>

\* best_ask()
BestAsk(book) ==
    IF book.asks = << >> THEN << >>
    ELSE << book.asks[FirstMinPrice(book.asks, 1, 1)] >>

\* ----------------------------------------------------------- Environment
\* The instruments of the MarketServer's default Environment.
Symbols == {"AAPL", "GOOG"}

\* A symbol that is no instrument of the Environment.
UnknownSymbol == "MSFT"

\* Instrument(symbol, initial_price) as the MarketServer builds them.
InitialPrice(sym) ==
    IF sym = "AAPL" THEN 100 ELSE 150

\* add_account's starting cash.
StartCash == 1000000

\* An empty dict.
EmptyDict ==
    [x \in {} |-> 0]

\* Environment.__init__ over the two instruments.
NewEnvironment ==
    [time |-> 0,
     trade_log |-> << >>,
     pending_orders |-> << >>,
     agent_accounts |-> EmptyDict,
     instruments |-> [sym \in Symbols |->
                        [price |-> InitialPrice(sym), order_book |-> EmptyBook]]]

\* d[key] = value
DictSet(d, key, value) ==
    IF key \in DOMAIN d THEN [d EXCEPT ![key] = value] ELSE d @@ (key :> value)

\* d.get(key, 0)
DictGet(d, key) ==
    IF key \in DOMAIN d THEN d[key] ELSE 0

\* add_account: the account of agent_id is set to the starting one, whether
\* or not there was one.
AddAccount(accounts, agent_id) ==
    DictSet(accounts, agent_id, [cash |-> StartCash, portfolio |-> EmptyDict])

\* A buyer's position that the trade leaves as it was.
BuyerPositionKept(pos, volume) ==
    pos

\* The buyer's new position: buyer_pos + volume.
BuyerPosition(pos, volume) ==
    pos + volume

\* A seller's position that grows by the volume sold.
SellerPositionUp(pos, volume) ==
    pos + volume

\* The seller's new position: seller_pos - volume.
SellerPosition(pos, volume) ==
    pos - volume

\* update_accounts: both accounts are made if missing, then the buyer's
\* account and then the seller's are written; they are one dict when the
\* buyer is the seller.
UpdateAccounts(accounts, trade) ==
    LET value == trade.price * trade.volume
        a1 == IF trade.buyer \in DOMAIN accounts THEN accounts
              ELSE AddAccount(accounts, trade.buyer)
        a2 == IF trade.seller \in DOMAIN a1 THEN a1
              ELSE AddAccount(a1, trade.seller)
        a3 == [a2 EXCEPT ![trade.buyer].cash = @ - value]
        a4 == [a3 EXCEPT ![trade.buyer].portfolio =
                  DictSet(@, trade.symbol,
                          BuyerPosition(DictGet(@, trade.symbol), trade.volume))]
        a5 == [a4 EXCEPT ![trade.seller].cash = @ + value]
    IN  [a5 EXCEPT ![trade.seller].portfolio =
            DictSet(@, trade.symbol,
                    SellerPosition(DictGet(@, trade.symbol), trade.volume))]

RECURSIVE SettleSteps(_, _)
\* for t in trades: self.update_accounts(t), as the sequence of the calls
\* made: the accounts each found (pre), its trade and the accounts it left
\* (post).
SettleSteps(accounts, trades) ==
    IF trades = << >> THEN << >>
    ELSE LET post == UpdateAccounts(accounts, Head(trades))
         IN  << [pre |-> accounts, trade |-> Head(trades), post |-> post] >>
             \o SettleSteps(post, Tail(trades))

\* The accounts after these update_accounts calls.
SettleAll(accounts, trades) ==
    LET steps == SettleSteps(accounts, trades)
    IN  IF steps = << >> THEN accounts ELSE steps[Len(steps)].post

\* t.time = self.time, for each trade returned.
Stamp(trades, now) ==
    [n \in DOMAIN trades |-> [trades[n] EXCEPT !.time = now]]

\* The Environment after place_order returned or raised r in process_orders:
\* [env, trades, raised]. Each trade is stamped, collected and settled; the
\* trades are the objects the book keeps in its own list, so the stamp shows
\* there too.
Processed(e, symbol, r) ==
    IF r.raised
    THEN [env |-> e, trades |-> << >>, raised |-> TRUE]
    ELSE [env |-> [e EXCEPT
                     !.instruments[symbol].order_book =
                        [r.book EXCEPT !.trades =
                            e.instruments[symbol].order_book.trades
                            \o Stamp(r.trades, e.time)],
                     !.agent_accounts = SettleAll(@, Stamp(r.trades, e.time))],
          trades |-> Stamp(r.trades, e.time), raised |-> FALSE]

\* One iteration of the loop of process_orders, for the request req, with
\* the time and uuid its Order draws: [env, trades, raised]. raised is the
\* KeyError of self.instruments[symbol] or the ValueError of place_order.
ProcessOrder(e, req, ts, id) ==
    IF req.symbol \notin DOMAIN e.instruments
    THEN [env |-> e, trades |-> << >>, raised |-> TRUE]
    ELSE Processed(e, req.symbol,
                   PlaceOrder(e.instruments[req.symbol].order_book, req.symbol,
                              NewOrder(id, req.agent_id, req.side, req.price,
                                       req.volume, req.order_type, ts)))

\* A submit_order that hands the order to the book at once.
SubmitOrderEager(e, order) ==
    ProcessOrder([e EXCEPT !.pending_orders = Append(@, order)], order,
                 1, <<1, 1>>).env

\* submit_order
SubmitOrder(e, order) ==
    [e EXCEPT !.pending_orders = Append(@, order)]

RECURSIVE FirstTradePrice(_, _, _, _)
\* An update_prices that takes trades[0].price.
FirstTradePrice(log, sym, now, price) ==
    IF log = << >> THEN price
    ELSE LET t == Head(log)
         IN  IF t.symbol = sym /\ t.time = now THEN t.price
             ELSE FirstTradePrice(Tail(log), sym, now, price)

RECURSIVE LastTradePrice(_, _, _, _)
\* trades = [t for t in trade_log if t.symbol == sym and t.time == now];
\* trades[-1].price if there is one, else the price given.
LastTradePrice(log, sym, now, price) ==
    IF log = << >> THEN price
    ELSE LET t == Head(log)
         IN  LastTradePrice(Tail(log), sym, now,
                            IF t.symbol = sym /\ t.time = now THEN t.price
                            ELSE price)

\* update_prices
UpdatePrices(e) ==
    [e EXCEPT !.instruments =
        [sym \in DOMAIN @ |->
            [@[sym] EXCEPT !.price =
                LastTradePrice(e.trade_log, sym, e.time, @)]]]

\* get_state(addr): the snapshot, addr being "" for get_state(). It raises
\* KeyError when addr has no account: raised is that.
GetState(e, addr) ==
    [time |-> e.time,
     order_books |-> [sym \in DOMAIN e.instruments |->
                        [bids |-> Len(e.instruments[sym].order_book.bids),
                         asks |-> Len(e.instruments[sym].order_book.asks)]],
     prices |-> [sym \in DOMAIN e.instruments |-> e.instruments[sym].price],
     account |-> IF addr # "" /\ addr \in DOMAIN e.agent_accounts
                 THEN << e.agent_accounts[addr] >> ELSE << >>,
     raised |-> addr # "" /\ addr \notin DOMAIN e.agent_accounts]

\* A reset that also empties the pending queue.
ResetWithQueue(e) ==
    [e EXCEPT !.time = 0,
              !.trade_log = << >>,
              !.pending_orders = << >>,
              !.instruments =
                 [sym \in DOMAIN @ |->
                    [@[sym] EXCEPT !.order_book = EmptyBook]]]

\* A reset() that clears the accounts as well.
ResetWithAccounts(e) ==
    [e EXCEPT !.time = 0,
              !.trade_log = << >>,
              !.agent_accounts = EmptyDict,
              !.instruments =
                 [sym \in DOMAIN @ |->
                    [@[sym] EXCEPT !.order_book = EmptyBook]]]

\* reset(), before the get_state() it returns.
Reset(e) ==
    [e EXCEPT !.time = 0,
              !.trade_log = << >>,
              !.instruments =
                 [sym \in DOMAIN @ |->
                    [@[sym] EXCEPT !.order_book = EmptyBook]]]

\* ------------------------------------------------------------------ state
VARIABLES
    book,       \* a standalone OrderBook(): [bids, asks, trades]
    clock,      \* the last value time.time() returned
    used,       \* the uuids drawn so far
    call,       \* the last place_order call on book: what it was given,
                \* the book it found and what it returned
    env,        \* the Environment: [time, trade_log, pending_orders,
                \* agent_accounts, instruments]
    tick,       \* the tick() call in progress: where it is, the index of
                \* its list iterator, its all_trades, the Environment it found
    ret,        \* the last tick() or reset() call that ended: what it
                \* returned or that it raised, and the Environment it found
    hist,       \* history: the submit_order, tick() and reset() calls made
                \* and the messages received so far, the requests handed to
                \* place_order, in order, and the update_accounts calls of
                \* the last order processed
    handler     \* the handle_client thread of each connection: where it is,
                \* the message it is handling, the snapshot get_state is
                \* building and the last response it sent

vars == <<book, clock, used, call, env, tick, ret, hist, handler>>

bookVars == <<book, call>>

envVars == <<env, tick, ret, hist>>

\* order_type values a caller may pass.
OrderTypes == {"limit", "market"}

\* agent_id values of the order requests.
EnvAgents == {"A", "B"}

\* The two orders of the end-to-end example: buy 5 at 101 by A, sell 5 at
\* 100 by B.
ExampleRequests ==
    {[symbol |-> "AAPL", price |-> 101, volume |-> 5, side |-> "buy",
      order_type |-> "limit", agent_id |-> "A"],
     [symbol |-> "AAPL", price |-> 100, volume |-> 5, side |-> "sell",
      order_type |-> "limit", agent_id |-> "B"]}

\* The order dicts submitted: the well-formed ones, one that names no
\* instrument of the Environment and one whose kind is neither limit nor
\* market.
Requests ==
    [symbol : {"AAPL"}, price : Prices, volume : Quantities, side : Sides,
     order_type : OrderTypes, agent_id : EnvAgents]
    \cup [symbol : {"GOOG"}, price : {1}, volume : {1}, side : Sides,
          order_type : {"limit"}, agent_id : EnvAgents]
    \cup {[symbol |-> UnknownSymbol, price |-> 1, volume |-> 1,
           side |-> "buy", order_type |-> "limit", agent_id |-> "A"],
          [symbol |-> "AAPL", price |-> 1, volume |-> 1,
           side |-> "buy", order_type |-> "stop", agent_id |-> "A"]}
    \cup ExampleRequests

\* The order dicts of a sweep: one-share limit orders of A, two-share market
\* orders of B, and one order that names no instrument.
SweepRequests ==
    [symbol : {"AAPL"}, price : Prices, volume : {1}, side : Sides,
     order_type : {"limit"}, agent_id : {"A"}]
    \cup [symbol : {"AAPL"}, price : {1}, volume : {2}, side : Sides,
          order_type : {"market"}, agent_id : {"B"}]
    \cup {[symbol |-> UnknownSymbol, price |-> 1, volume |-> 1,
           side |-> "buy", order_type |-> "limit", agent_id |-> "A"]}

\* The request as the n-th one submitted: rid tells apart two dicts of equal
\* content.
Tagged(req, n) ==
    [rid |-> n] @@ req

\* The addresses of the connections accepted: (host, port) tuples, none of
\* them an agent_id.
Conns == {"c1", "c2"}

\* The order dicts of the PLACE_ORDER messages.
SrvRequests ==
    [symbol : {"AAPL"}, price : {1}, volume : {1}, side : Sides,
     order_type : {"limit"}, agent_id : EnvAgents]
    \cup {[symbol |-> UnknownSymbol, price |-> 1, volume |-> 1,
           side |-> "buy", order_type |-> "limit", agent_id |-> "A"]}

\* What msg.agent_id is for a JSON object that has no "agent_id" key.
Missing == "<missing>"

\* The JSON messages a client sends; the last one lacks the agent_id.
Messages ==
    {[type |-> "PLACE_ORDER", order |-> req, agent_id |-> req.agent_id] :
        req \in SrvRequests}
    \cup {[type |-> t, order |-> << >>, agent_id |-> "A"] :
            t \in {"GET_STATE", "GET_TIME", "GET_BOOK", "PING"}}
    \cup {[type |-> "GET_STATE", order |-> << >>, agent_id |-> Missing]}

\* The one connection of a client that trades and asks for its state.
AccountConns == {"c1"}

\* The messages of a participant that trades and asks for its state: a buy
\* of A, a sell of B that crosses it, and GET_STATE with agent_id A.
AccountMessages ==
    {[type |-> "PLACE_ORDER", agent_id |-> "A",
      order |-> [symbol |-> "AAPL", price |-> 1, volume |-> 1,
                 side |-> "buy", order_type |-> "limit", agent_id |-> "A"]],
     [type |-> "PLACE_ORDER", agent_id |-> "B",
      order |-> [symbol |-> "AAPL", price |-> 1, volume |-> 1,
                 side |-> "sell", order_type |-> "limit", agent_id |-> "B"]],
     [type |-> "GET_STATE", order |-> << >>, agent_id |-> "A"]}

NoMessage ==
    [type |-> "none", order |-> << >>, agent_id |-> ""]

NoSnapshot ==
    [time |-> 0, order_books |-> << >>, prices |-> << >>, account |-> << >>]

NoResponse ==
    [type |-> "none", time |-> 0, state |-> NoSnapshot]

NewHandler ==
    [pc |-> "new", msg |-> NoMessage, snap |-> NoSnapshot,
     reply |-> NoResponse]

NoCall ==
    [op |-> "none", order |-> NewOrder(<<0, 0>>, "", "buy", 0, 0, "none", 0),
     pre |-> EmptyBook, trades |-> << >>, raised |-> FALSE]

IdleTick ==
    [pc |-> "idle", i |-> 0, all_trades |-> << >>, pre |-> NewEnvironment]

NoReturn ==
    [op |-> "none", time |-> 0, trades |-> << >>, state |-> << >>,
     raised |-> FALSE, pre |-> NewEnvironment]

Init ==
    /\ book = EmptyBook
    /\ clock = 0
    /\ used = {}
    /\ call = NoCall
    /\ env = NewEnvironment
    /\ tick = IdleTick
    /\ ret = NoReturn
    /\ hist = [nsub |-> 0, nticks |-> 0, nresets |-> 0, nmsg |-> 0,
               placed |-> << >>, settled |-> << >>]
    /\ handler = [c \in Conns |-> NewHandler]

\* The standalone book after place_order of order returned or raised r.
BookPlaced(order, r) ==
    /\ book' = r.book
    /\ clock' = order.timestamp
    /\ used' = used \cup {order.order_id}
    /\ call' = [op |-> "place_order", order |-> order, pre |-> book,
                trades |-> r.trades, raised |-> r.raised]

\* book.place_order(price, volume, side, order_type, agent_id): the Order
\* draws a fresh uuid and the current time, which has not gone back since
\* the last call.
BookPlaceOrder ==
    /\ Cardinality(used) < MaxOrders
    /\ \E ts \in ClockReads(clock, used) :
         \E id \in FreshUuids(ts, used) :
           \E agent \in Agents, side \in Sides, price \in Prices,
              volume \in Quantities, kind \in OrderTypes :
             BookPlaced(NewOrder(id, agent, side, price, volume, kind, ts),
                        PlaceOrder(book, DefaultSymbol,
                                   NewOrder(id, agent, side, price, volume,
                                            kind, ts)))
    /\ UNCHANGED <<envVars, handler>>

Next ==
    BookPlaceOrder

Spec ==
    Init /\ [][Next]_vars

\* place_order calls that all name one price: longer sequences of calls on
\* one price level.
BookPlaceAtOnePrice ==
    /\ Cardinality(used) < MaxLevelOrders
    /\ \E ts \in ClockReads(clock, used) :
         \E id \in FreshUuids(ts, used) :
           \E agent \in Agents, side \in Sides, volume \in Quantities,
              kind \in OrderTypes :
             BookPlaced(NewOrder(id, agent, side, 1, volume, kind, ts),
                        PlaceOrder(book, DefaultSymbol,
                                   NewOrder(id, agent, side, 1, volume,
                                            kind, ts)))
    /\ UNCHANGED <<envVars, handler>>

NextLevel ==
    BookPlaceAtOnePrice

SpecLevel ==
    Init /\ [][NextLevel]_vars

\* volume values of calls that may also ask for nothing.
Volumes == 0..MaxQty

\* place_order calls of two participants whose volume may be 0.
BookPlaceAnyVolume ==
    /\ Cardinality(used) < MaxOrders
    /\ \E ts \in ClockReads(clock, used) :
         \E id \in FreshUuids(ts, used) :
           \E agent \in EnvAgents, side \in Sides, price \in Prices,
              volume \in Volumes, kind \in OrderTypes :
             BookPlaced(NewOrder(id, agent, side, price, volume, kind, ts),
                        PlaceOrder(book, DefaultSymbol,
                                   NewOrder(id, agent, side, price, volume,
                                            kind, ts)))
    /\ UNCHANGED <<envVars, handler>>

NextVolume ==
    BookPlaceAnyVolume

SpecVolume ==
    Init /\ [][NextVolume]_vars

\* ------------------------------------------- the Environment, one caller
\* No tick() call is in progress: the last one returned or raised.
TickEnded ==
    tick.pc \in {"idle", "raised"}

\* env.submit_order(order)
EnvSubmit ==
    /\ TickEnded
    /\ hist.nsub < MaxSubmits
    /\ \E req \in Requests :
         env' = SubmitOrder(env, Tagged(req, hist.nsub + 1))
    /\ hist' = [hist EXCEPT !.nsub = @ + 1]
    /\ UNCHANGED <<tick, ret, clock, used, bookVars, handler>>

\* env.submit_order(order), for the orders of a sweep.
EnvSubmitSweep ==
    /\ TickEnded
    /\ hist.nsub < MaxSweepSubmits
    /\ \E req \in SweepRequests :
         env' = SubmitOrder(env, Tagged(req, hist.nsub + 1))
    /\ hist' = [hist EXCEPT !.nsub = @ + 1]
    /\ UNCHANGED <<tick, ret, clock, used, bookVars, handler>>

\* tick(): self.time += 1, then process_orders is entered.
TickBegin ==
    /\ hist.nticks < MaxTicks
    /\ env' = [env EXCEPT !.time = @ + 1]
    /\ tick' = [pc |-> "process", i |-> 0, all_trades |-> << >>, pre |-> env]
    /\ hist' = [hist EXCEPT !.nticks = @ + 1]
    /\ UNCHANGED <<ret, clock, used, bookVars, handler>>

\* process_orders: the list iterator yields the next pending order, whose
\* symbol is no instrument: KeyError, which ends tick().
TickProcessUnknown ==
    /\ tick.pc = "process"
    /\ tick.i < Len(env.pending_orders)
    /\ env.pending_orders[tick.i + 1].symbol \notin DOMAIN env.instruments
    /\ tick' = [tick EXCEPT !.pc = "raised"]
    /\ ret' = [op |-> "tick", time |-> env.time, trades |-> << >>,
               state |-> << >>, raised |-> TRUE, pre |-> tick.pre]
    /\ UNCHANGED <<env, hist, clock, used, bookVars, handler>>

\* The Environment and the tick() call after the iteration of the loop of
\* process_orders for req, r being what ProcessOrder gives.
TickProcessed(req, r) ==
    /\ env' = r.env
    /\ hist' = [hist EXCEPT
                  !.placed = Append(@, req.rid),
                  !.settled = SettleSteps(env.agent_accounts, r.trades)]
    /\ tick' = IF r.raised THEN [tick EXCEPT !.pc = "raised"]
               ELSE [tick EXCEPT !.i = @ + 1, !.all_trades = @ \o r.trades]
    /\ ret' = IF r.raised
              THEN [op |-> "tick", time |-> env.time, trades |-> << >>,
                    state |-> << >>, raised |-> TRUE, pre |-> tick.pre]
              ELSE ret

\* process_orders: the list iterator yields the next pending order, which is
\* placed; its trades are stamped, collected and settled, or place_order
\* raises, which ends tick().
TickProcessOrder ==
    /\ tick.pc = "process"
    /\ tick.i < Len(env.pending_orders)
    /\ env.pending_orders[tick.i + 1].symbol \in DOMAIN env.instruments
    /\ Cardinality(used) < MaxDraws
    /\ \E ts \in ClockReads(clock, used) :
         \E id \in FreshUuids(ts, used) :
           /\ clock' = ts
           /\ used' = used \cup {id}
           /\ TickProcessed(env.pending_orders[tick.i + 1],
                            ProcessOrder(env, env.pending_orders[tick.i + 1],
                                         ts, id))
    /\ UNCHANGED <<bookVars, handler>>

\* process_orders: the list iterator is exhausted.
TickLoopEnd ==
    /\ tick.pc = "process"
    /\ tick.i >= Len(env.pending_orders)
    /\ tick' = [tick EXCEPT !.pc = "clear"]
    /\ UNCHANGED <<env, ret, hist, clock, used, bookVars, handler>>

\* process_orders: self.pending_orders.clear()
TickClear ==
    /\ tick.pc = "clear"
    /\ env' = [env EXCEPT !.pending_orders = << >>]
    /\ tick' = [tick EXCEPT !.pc = "log"]
    /\ UNCHANGED <<ret, hist, clock, used, bookVars, handler>>

\* process_orders: if all_trades: self.trade_log.extend(all_trades)
TickLog ==
    /\ tick.pc = "log"
    /\ env' = [env EXCEPT !.trade_log = @ \o tick.all_trades]
    /\ tick' = [tick EXCEPT !.pc = "prices"]
    /\ UNCHANGED <<ret, hist, clock, used, bookVars, handler>>

\* tick(): self.update_prices()
TickPrices ==
    /\ tick.pc = "prices"
    /\ env' = UpdatePrices(env)
    /\ tick' = [tick EXCEPT !.pc = "return"]
    /\ UNCHANGED <<ret, hist, clock, used, bookVars, handler>>

\* tick(): return {"time": self.time, "trades": trades, "state": ...}
TickReturn ==
    /\ tick.pc = "return"
    /\ ret' = [op |-> "tick", time |-> env.time, trades |-> tick.all_trades,
               state |-> << GetState(env, "") >>, raised |-> FALSE,
               pre |-> tick.pre]
    /\ tick' = [tick EXCEPT !.pc = "idle"]
    /\ UNCHANGED <<env, hist, clock, used, bookVars, handler>>

\* env.reset()
EnvReset ==
    /\ TickEnded
    /\ hist.nresets < MaxResets
    /\ env' = Reset(env)
    /\ ret' = [op |-> "reset", time |-> 0, trades |-> << >>,
               state |-> << GetState(Reset(env), "") >>, raised |-> FALSE,
               pre |-> env]
    /\ hist' = [hist EXCEPT !.nresets = @ + 1]
    /\ UNCHANGED <<tick, clock, used, bookVars, handler>>

\* env.get_state(addr), or env.get_state() when addr is "".
EnvGetState ==
    /\ TickEnded
    /\ \E addr \in {"", "A"} :
         ret' = [op |-> "get_state", time |-> env.time, trades |-> << >>,
                 state |-> IF GetState(env, addr).raised THEN << >>
                           ELSE << GetState(env, addr) >>,
                 raised |-> GetState(env, addr).raised, pre |-> env]
    /\ UNCHANGED <<env, tick, hist, clock, used, bookVars, handler>>

\* The steps of one tick() call after its first.
TickStep ==
    \/ TickProcessUnknown
    \/ TickProcessOrder
    \/ TickLoopEnd
    \/ TickClear
    \/ TickLog
    \/ TickPrices
    \/ TickReturn

\* One caller: a call is made only when the one before it has ended.
NextEnv ==
    \/ EnvSubmit
    \/ EnvGetState
    \/ TickEnded /\ TickBegin
    \/ TickStep
    \/ EnvReset

SpecEnv ==
    Init /\ [][NextEnv]_vars

\* One caller, three orders of one instrument: one-share limit orders of A
\* at two prices and two-share market orders of B, which sweep them.
NextSweep ==
    \/ EnvSubmitSweep
    \/ TickEnded /\ TickBegin
    \/ TickStep
    \/ EnvReset

SpecSweep ==
    Init /\ [][NextSweep]_vars

\* The order dicts of two participants who trade with each other and with
\* themselves: two-share limit orders of A and one-share market orders of A
\* and of B.
ConserveRequests ==
    [symbol : {"AAPL"}, price : Prices, volume : {2}, side : Sides,
     order_type : {"limit"}, agent_id : {"A"}]
    \cup [symbol : {"AAPL"}, price : {1}, volume : {1}, side : Sides,
          order_type : {"market"}, agent_id : EnvAgents]

\* env.submit_order(order), for these orders.
EnvSubmitConserve ==
    /\ TickEnded
    /\ hist.nsub < MaxSweepSubmits
    /\ \E req \in ConserveRequests :
         env' = SubmitOrder(env, Tagged(req, hist.nsub + 1))
    /\ hist' = [hist EXCEPT !.nsub = @ + 1]
    /\ UNCHANGED <<tick, ret, clock, used, bookVars, handler>>

\* One caller, three orders of one instrument, none of which makes tick()
\* raise.
NextConserve ==
    \/ EnvSubmitConserve
    \/ TickEnded /\ TickBegin
    \/ TickProcessOrder
    \/ TickLoopEnd
    \/ TickClear
    \/ TickLog
    \/ TickPrices
    \/ TickReturn
    \/ EnvReset

SpecConserve ==
    Init /\ [][NextConserve]_vars

\* --------------------------------------- the MarketServer and its threads
\* start() accepts a connection and starts handle_client(conn, addr), which
\* begins with self.env.add_account(addr).
HandleConnect(c) ==
    /\ handler[c].pc = "new"
    /\ env' = [env EXCEPT !.agent_accounts = AddAccount(@, c)]
    /\ handler' = [handler EXCEPT ![c].pc = "recv"]
    /\ UNCHANGED <<tick, ret, hist, clock, used, bookVars>>

\* handle_client: conn.recv gives a message; msg = json.loads(...).
HandleRecv(c) ==
    /\ handler[c].pc = "recv"
    /\ hist.nmsg < MaxMessages
    /\ \E msg \in Messages :
         handler' = [handler EXCEPT ![c].pc = "check", ![c].msg = msg]
    /\ hist' = [hist EXCEPT !.nmsg = @ + 1]
    /\ UNCHANGED <<env, tick, ret, clock, used, bookVars>>

\* handle_client: conn.recv gives a message of a participant that trades and
\* asks for its state.
HandleRecvAccount(c) ==
    /\ handler[c].pc = "recv"
    /\ hist.nmsg < MaxAccountMessages
    /\ \E msg \in AccountMessages :
         handler' = [handler EXCEPT ![c].pc = "check", ![c].msg = msg]
    /\ hist' = [hist EXCEPT !.nmsg = @ + 1]
    /\ UNCHANGED <<env, tick, ret, clock, used, bookVars>>

\* handle_client: conn.recv gives no data: break.
HandleClose(c) ==
    /\ handler[c].pc = "recv"
    /\ handler' = [handler EXCEPT ![c].pc = "closed"]
    /\ UNCHANGED <<env, tick, ret, hist, clock, used, bookVars>>

\* handle_client: agent_id = msg["agent_id"], a KeyError when the message
\* has none, on which the loop breaks; if agent_id not in
\* self.env.agent_accounts
HandleCheck(c) ==
    /\ handler[c].pc = "check"
    /\ handler' = [handler EXCEPT ![c].pc =
                      IF handler[c].msg.agent_id = Missing
                      THEN "closed"
                      ELSE IF handler[c].msg.agent_id
                               \notin DOMAIN env.agent_accounts
                      THEN "register" ELSE "process"]
    /\ UNCHANGED <<env, tick, ret, hist, clock, used, bookVars>>

\* handle_client: self.env.add_account(agent_id)
HandleRegister(c) ==
    /\ handler[c].pc = "register"
    /\ env' = [env EXCEPT !.agent_accounts =
                  AddAccount(@, handler[c].msg.agent_id)]
    /\ handler' = [handler EXCEPT ![c].pc = "process"]
    /\ UNCHANGED <<tick, ret, hist, clock, used, bookVars>>

\* process_message, PLACE_ORDER: the order dict is queued and acknowledged.
HandlePlaceOrder(c) ==
    /\ handler[c].pc = "process"
    /\ handler[c].msg.type = "PLACE_ORDER"
    /\ env' = SubmitOrder(env, Tagged(handler[c].msg.order, hist.nsub + 1))
    /\ hist' = [hist EXCEPT !.nsub = @ + 1]
    /\ handler' = [handler EXCEPT
                     ![c].pc = "recv",
                     ![c].msg = NoMessage,
                     ![c].reply = [NoResponse EXCEPT !.type = "ACK"]]
    /\ UNCHANGED <<tick, ret, clock, used, bookVars>>

\* process_message, GET_BOOK for AAPL: list(ob.bids) and list(ob.asks) are
\* lists of Order objects, which json.dumps takes only when they are empty;
\* else it raises TypeError and handle_client breaks.
HandleGetBook(c) ==
    /\ handler[c].pc = "process"
    /\ handler[c].msg.type = "GET_BOOK"
    /\ handler' =
         IF /\ env.instruments["AAPL"].order_book.bids = << >>
            /\ env.instruments["AAPL"].order_book.asks = << >>
         THEN [handler EXCEPT ![c].pc = "recv",
                              ![c].msg = NoMessage,
                              ![c].reply = [NoResponse EXCEPT !.type = "BOOK"]]
         ELSE [handler EXCEPT ![c].pc = "closed"]
    /\ UNCHANGED <<env, tick, ret, hist, clock, used, bookVars>>

\* process_message, GET_TIME: self.env.time is read.
HandleGetTime(c) ==
    /\ handler[c].pc = "process"
    /\ handler[c].msg.type = "GET_TIME"
    /\ handler' = [handler EXCEPT
                     ![c].pc = "recv",
                     ![c].msg = NoMessage,
                     ![c].reply = [NoResponse EXCEPT !.type = "TIME",
                                                     !.time = env.time]]
    /\ UNCHANGED <<env, tick, ret, hist, clock, used, bookVars>>

\* process_message, any other type: an error response.
HandleUnknownType(c) ==
    /\ handler[c].pc = "process"
    /\ handler[c].msg.type
         \notin {"PLACE_ORDER", "GET_BOOK", "GET_STATE", "GET_TIME"}
    /\ handler' = [handler EXCEPT
                     ![c].pc = "recv",
                     ![c].msg = NoMessage,
                     ![c].reply = [NoResponse EXCEPT !.type = "error"]]
    /\ UNCHANGED <<env, tick, ret, hist, clock, used, bookVars>>

\* process_message, GET_STATE: get_state(addr) begins to build its dict
\* with "time": self.time.
HandleGetState(c) ==
    /\ handler[c].pc = "process"
    /\ handler[c].msg.type = "GET_STATE"
    /\ handler' = [handler EXCEPT
                     ![c].pc = "order_books",
                     ![c].snap = [NoSnapshot EXCEPT !.time = env.time]]
    /\ UNCHANGED <<env, tick, ret, hist, clock, used, bookVars>>

\* get_state(addr): the "order_books" comprehension.
HandleStateBooks(c) ==
    /\ handler[c].pc = "order_books"
    /\ handler' = [handler EXCEPT
                     ![c].pc = "prices",
                     ![c].snap.order_books = GetState(env, c).order_books]
    /\ UNCHANGED <<env, tick, ret, hist, clock, used, bookVars>>

\* get_state(addr): the "prices" comprehension and the account of addr;
\* the dict is returned and sent as the STATE response.
HandleStatePrices(c) ==
    /\ handler[c].pc = "prices"
    /\ handler' =
         IF GetState(env, c).raised
         THEN [handler EXCEPT ![c].pc = "closed"]
         ELSE [handler EXCEPT
                 ![c].pc = "recv",
                 ![c].msg = NoMessage,
                 ![c].snap = NoSnapshot,
                 ![c].reply =
                    [NoResponse EXCEPT
                       !.type = "STATE",
                       !.state = [handler[c].snap EXCEPT
                                    !.prices = GetState(env, c).prices,
                                    !.account = GetState(env, c).account]]]
    /\ UNCHANGED <<env, tick, ret, hist, clock, used, bookVars>>

\* The steps of the handle_client thread of connection c.
HandleStep(c) ==
    \/ HandleConnect(c)
    \/ HandleRecv(c)
    \/ HandleClose(c)
    \/ HandleCheck(c)
    \/ HandleRegister(c)
    \/ HandlePlaceOrder(c)
    \/ HandleGetBook(c)
    \/ HandleGetTime(c)
    \/ HandleUnknownType(c)
    \/ HandleGetState(c)
    \/ HandleStateBooks(c)
    \/ HandleStatePrices(c)

\* tick_loop: while self.running: result = self.env.tick(). The thread ends
\* when tick() raises.
TickLoop ==
    \/ tick.pc = "idle" /\ TickBegin
    \/ TickStep

\* The threads of start(): the tick thread and one handle_client thread per
\* connection, with no lock between them.
NextSrv ==
    \/ TickLoop
    \/ \E c \in Conns : HandleStep(c)

SpecSrv ==
    Init /\ [][NextSrv]_vars

\* The tick thread and the handle_client thread of one connection, whose
\* client sends only orders that cross and GET_STATE.
NextAccount ==
    \/ tick.pc = "idle" /\ TickBegin
    \/ TickProcessOrder
    \/ TickLoopEnd
    \/ TickClear
    \/ TickLog
    \/ TickPrices
    \/ TickReturn
    \/ \E c \in AccountConns :
         \/ HandleConnect(c)
         \/ HandleRecvAccount(c)
         \/ HandleCheck(c)
         \/ HandleRegister(c)
         \/ HandlePlaceOrder(c)
         \/ HandleGetState(c)
         \/ HandleStateBooks(c)
         \/ HandleStatePrices(c)

SpecAccount ==
    Init /\ [][NextAccount]_vars

\* The messages of two clients that both use participant id A: the first
\* only asks for the time, the second sends a buy of A and a sell of B that
\* crosses it.
RegisterMessages(c) ==
    IF c = "c1"
    THEN {[type |-> "GET_TIME", order |-> << >>, agent_id |-> "A"]}
    ELSE {[type |-> "PLACE_ORDER", agent_id |-> "A",
           order |-> [symbol |-> "AAPL", price |-> 1, volume |-> 1,
                      side |-> "buy", order_type |-> "limit",
                      agent_id |-> "A"]],
          [type |-> "PLACE_ORDER", agent_id |-> "B",
           order |-> [symbol |-> "AAPL", price |-> 1, volume |-> 1,
                      side |-> "sell", order_type |-> "limit",
                      agent_id |-> "B"]]}

\* handle_client: conn.recv gives a message of one of these two clients.
HandleRecvRegister(c) ==
    /\ handler[c].pc = "recv"
    /\ hist.nmsg < MaxRegisterMessages
    /\ \E msg \in RegisterMessages(c) :
         handler' = [handler EXCEPT ![c].pc = "check", ![c].msg = msg]
    /\ hist' = [hist EXCEPT !.nmsg = @ + 1]
    /\ UNCHANGED <<env, tick, ret, clock, used, bookVars>>

\* The tick thread and the handle_client threads of two connections whose
\* clients use the same participant id.
NextRegister ==
    \/ tick.pc = "idle" /\ TickBegin
    \/ TickProcessOrder
    \/ TickLoopEnd
    \/ TickClear
    \/ TickLog
    \/ TickPrices
    \/ TickReturn
    \/ \E c \in Conns :
         \/ HandleConnect(c)
         \/ HandleRecvRegister(c)
         \/ HandleCheck(c)
         \/ HandleRegister(c)
         \/ HandlePlaceOrder(c)
         \/ HandleGetTime(c)

SpecRegister ==
    Init /\ [][NextRegister]_vars

\* ------------------------------------------------- the last place_order call
\* The last call returned (it did not raise).
Returned ==
    call.op = "place_order" /\ ~call.raised

\* The side the incoming order was matched against, as the call found it.
PreOpposite ==
    Opposite(call.pre, call.order.side)

\* The resting order of a trade of the last call.
RestingId(t) ==
    IF call.order.side = "buy" THEN t.seller_order ELSE t.buyer_order

\* The orders resting on either side of a book.
Resting(b) ==
    {b.bids[i] : i \in DOMAIN b.bids} \cup {b.asks[i] : i \in DOMAIN b.asks}

RECURSIVE SumVolume(_)
SumVolume(ts) ==
    IF ts = << >> THEN 0 ELSE Head(ts).volume + SumVolume(Tail(ts))

\* C1: price-time priority. When a place_order call matches and two orders of
\* other participants rest on the opposite side at the same price, the one
\* with the later timestamp appears in a trade of the call only after the
\* one with the earlier timestamp has.
C1_PriceTimePriority ==
    Returned =>
      \A i, j \in DOMAIN PreOpposite :
        LET a == PreOpposite[i]
            b == PreOpposite[j]
        IN  ( /\ a.price = b.price
              /\ a.timestamp < b.timestamp
              /\ a.agent_id # call.order.agent_id
              /\ b.agent_id # call.order.agent_id )
            => \A n \in DOMAIN call.trades :
                 RestingId(call.trades[n]) = b.order_id
                 => \E m \in 1..(n - 1) :
                      RestingId(call.trades[m]) = a.order_id

\* The last call found a and b resting at one price, a the earlier, both of
\* participants other than the caller and than each other, and traded with
\* a and then with b.
TradedInTimeOrder(a, b) ==
    /\ Returned
    /\ Len(call.trades) >= 2
    /\ a.price = b.price
    /\ a.timestamp < b.timestamp
    /\ a.agent_id # call.order.agent_id
    /\ b.agent_id # call.order.agent_id
    /\ a.agent_id # b.agent_id
    /\ RestingId(call.trades[1]) = a.order_id
    /\ RestingId(call.trades[2]) = b.order_id

\* An earlier call, made after a was placed, traded with the resting order a.
PartFilledBefore(a) ==
    \E k \in DOMAIN call.pre.trades :
        LET t == call.pre.trades[k]
        IN  \/ t.seller_order = a.order_id /\ t.buyer_order[1] > a.timestamp
            \/ t.buyer_order = a.order_id /\ t.seller_order[1] > a.timestamp

\* An earlier call of a's participant, made after a was placed, traded with
\* b and not with a, which rested before b at the same price: a was set
\* aside and restored.
SkippedBefore(a, b) ==
    \E k \in DOMAIN call.pre.trades :
        LET t == call.pre.trades[k]
        IN  \/ /\ t.seller_order = b.order_id
               /\ t.buyer = a.agent_id
               /\ t.buyer_order[1] > b.timestamp
            \/ /\ t.buyer_order = b.order_id
               /\ t.seller = a.agent_id
               /\ t.seller_order[1] > b.timestamp

\* A call that traded with two resting orders of other participants at one
\* price, the earlier first, the earlier one having been partially filled
\* by a call before.
C1_Witness ==
    \E i, j \in DOMAIN PreOpposite :
        /\ TradedInTimeOrder(PreOpposite[i], PreOpposite[j])
        /\ PartFilledBefore(PreOpposite[i])

\* The same, the earlier one having been skipped and restored by self-trade
\* avoidance in a call before.
C1_WitnessRestored ==
    \E i, j \in DOMAIN PreOpposite :
        /\ TradedInTimeOrder(PreOpposite[i], PreOpposite[j])
        /\ SkippedBefore(PreOpposite[i], PreOpposite[j])

\* C2: no self-trade. No trade returned by place_order, limit or market, has
\* the same participant as buyer and as seller (stated for the participants
\* that carry an id: "" is the id of a call that names no participant).
C2_NoSelfTrade ==
    \A n \in DOMAIN call.trades :
        call.trades[n].buyer # ""
        => call.trades[n].buyer # call.trades[n].seller

\* C3: crossing invariant. Once a place_order call has returned, if both
\* sides of the book hold orders, the best bid price is strictly lower than
\* the best ask price.
C3_NeverCrossed ==
    (book.bids # << >> /\ book.asks # << >>)
    => BestBid(book)[1].price < BestAsk(book)[1].price

\* C8: the aggressor sets the price. Every trade returned for an incoming
\* limit order carries the incoming order's limit price, on either side.
C8_AggressorPrice ==
    (Returned /\ call.order.order_type = "limit")
    => \A n \in DOMAIN call.trades : call.trades[n].price = call.order.price

\* A limit sell that traded with a resting bid of a higher price.
C8_Witness ==
    /\ Returned
    /\ call.order.order_type = "limit"
    /\ call.order.side = "sell"
    /\ call.trades # << >>
    /\ \E i \in DOMAIN PreOpposite :
         /\ PreOpposite[i].order_id = RestingId(call.trades[1])
         /\ PreOpposite[i].price > call.order.price

\* C9: market orders trade at the resting price. Every trade returned for a
\* market order carries the price of the resting order it matched, whatever
\* the market order's price field, and has the market order's participant as
\* buyer (market buy) or seller (market sell).
C9_MarketAtRestingPrice ==
    (Returned /\ call.order.order_type = "market")
    => \A n \in DOMAIN call.trades :
         LET t == call.trades[n]
         IN  /\ \E i \in DOMAIN PreOpposite :
                  /\ PreOpposite[i].order_id = RestingId(t)
                  /\ PreOpposite[i].price = t.price
             /\ call.order.side = "buy" => t.buyer = call.order.agent_id
             /\ call.order.side = "sell" => t.seller = call.order.agent_id

\* A market buy that traded with a resting ask priced otherwise than its own
\* price field, the ask belonging to another participant.
C9_Witness ==
    /\ Returned
    /\ call.order.order_type = "market"
    /\ call.order.side = "buy"
    /\ call.trades # << >>
    /\ call.trades[1].price # call.order.price
    /\ call.trades[1].seller # call.order.agent_id

\* C10: market orders never rest. After a market place_order has returned,
\* no order of that call is in the book, whatever was left unfilled; and
\* against an empty opposite side it returns no trade and leaves both sides
\* as they were.
C10_MarketNeverRests ==
    (Returned /\ call.order.order_type = "market")
    => /\ \A o \in Resting(book) : o.order_id # call.order.order_id
       /\ PreOpposite = << >>
          => /\ call.trades = << >>
             /\ book.bids = call.pre.bids
             /\ book.asks = call.pre.asks

\* A market order that was filled in part: it traded, and some of its
\* quantity was left.
C10_Witness ==
    /\ Returned
    /\ call.order.order_type = "market"
    /\ call.trades # << >>
    /\ SumVolume(call.trades) < call.order.quantity

\* ----------------------------------------------------------- settlement
\* The holdings of id in sym under these accounts; an id with no account
\* holds nothing.
Holding(accounts, id, sym) ==
    IF id \in DOMAIN accounts THEN DictGet(accounts[id].portfolio, sym) ELSE 0

\* The cash of id under these accounts; an account is made with the
\* starting cash on first use.
Cash(accounts, id) ==
    IF id \in DOMAIN accounts THEN accounts[id].cash ELSE StartCash

\* What C6 says of one update_accounts call s = [pre, trade, post].
SettlesExactly(s) ==
    LET t == s.trade
        value == t.price * t.volume
    IN  /\ Holding(s.post, t.buyer, t.symbol)
             = Holding(s.pre, t.buyer, t.symbol) + t.volume
        /\ Holding(s.post, t.seller, t.symbol)
             = Holding(s.pre, t.seller, t.symbol) - t.volume
        /\ Cash(s.post, t.buyer) = Cash(s.pre, t.buyer) - value
        /\ Cash(s.post, t.seller) = Cash(s.pre, t.seller) + value
        /\ \A id \in DOMAIN s.post \ {t.buyer, t.seller} :
             id \in DOMAIN s.pre /\ s.post[id] = s.pre[id]
        /\ \A id \in {t.buyer, t.seller}, sym \in Symbols \ {t.symbol} :
             Holding(s.post, id, sym) = Holding(s.pre, id, sym)

\* C6: quantity conservation per trade. Every update_accounts call raises
\* the buyer's holdings of the trade's symbol by the trade volume and lowers
\* the seller's by it, lowers the buyer's cash and raises the seller's by
\* price*volume, and changes no other account and no other symbol.
C6_SettlementExact ==
    \A n \in DOMAIN hist.settled : SettlesExactly(hist.settled[n])

\* The same for the trades between two participants: these the code
\* settles as C6 says.
C6_BetweenTwoParties ==
    \A n \in DOMAIN hist.settled :
        hist.settled[n].trade.buyer # hist.settled[n].trade.seller
        => SettlesExactly(hist.settled[n])

\* ---------------------------------------------------------- tick batching
\* Two pending orders that cross each other: limit orders for one
\* instrument, a buy and a sell, the buy priced at or above the sell.
MutuallyCrossing(q) ==
    /\ Len(q) = 2
    /\ q[1].symbol = q[2].symbol
    /\ q[1].symbol \in Symbols
    /\ q[1].order_type = "limit" /\ q[2].order_type = "limit"
    /\ q[1].volume > 0 /\ q[2].volume > 0
    /\ \/ q[1].side = "buy" /\ q[2].side = "sell" /\ q[1].price >= q[2].price
       \/ q[1].side = "sell" /\ q[2].side = "buy" /\ q[2].price >= q[1].price

\* The instrument of the first pending order has no resting order.
BookOfFirstEmpty(e) ==
    /\ e.instruments[e.pending_orders[1].symbol].order_book.bids = << >>
    /\ e.instruments[e.pending_orders[1].symbol].order_book.asks = << >>

\* A step of submit_order: the queue grows by one order at its end and
\* nothing else of the Environment changes.
SubmitOnlyAppends ==
    hist'.nsub = hist.nsub + 1
    => /\ Len(env'.pending_orders) = Len(env.pending_orders) + 1
       /\ SubSeq(env'.pending_orders, 1, Len(env.pending_orders))
            = env.pending_orders
       /\ env'.time = env.time
       /\ env'.trade_log = env.trade_log
       /\ env'.agent_accounts = env.agent_accounts
       /\ env'.instruments = env.instruments

\* C7 as stated: a tick() that finds two mutually crossing orders pending
\* returns exactly one trade.
C7_CrossingPairOneTrade ==
    (ret.op = "tick" /\ ~ret.raised /\ MutuallyCrossing(ret.pre.pending_orders))
    => Len(ret.trades) = 1

\* C7, amended: submit_order only appends to the pending queue and leaves
\* the books, the accounts, the trade log, the prices and the tick counter
\* as they are; and a tick() that finds pending exactly two mutually crossing
\* limit orders of two different participants, their instrument's book
\* being empty, returns exactly one trade (none having been logged for them
\* before it).
C7_TickBatching ==
    /\ [][SubmitOnlyAppends]_vars
    /\ []( ( /\ ret.op = "tick"
             /\ ~ret.raised
             /\ MutuallyCrossing(ret.pre.pending_orders)
             /\ ret.pre.pending_orders[1].agent_id
                  # ret.pre.pending_orders[2].agent_id
             /\ BookOfFirstEmpty(ret.pre) )
           => Len(ret.trades) = 1 )

\* A tick() that found two crossing orders of two participants pending,
\* nothing logged, and returned one trade.
C7_Witness ==
    /\ ret.op = "tick"
    /\ ~ret.raised
    /\ MutuallyCrossing(ret.pre.pending_orders)
    /\ ret.pre.pending_orders[1].agent_id # ret.pre.pending_orders[2].agent_id
    /\ BookOfFirstEmpty(ret.pre)
    /\ ret.pre.trade_log = << >>
    /\ Len(ret.trades) = 1
    /\ env.trade_log = ret.trades

\* --------------------------------------------------- the submit/tick race
\* The requests in the pending queue.
Pending(e) ==
    {e.pending_orders[i].rid : i \in DOMAIN e.pending_orders}

\* The requests handed to place_order so far.
Placed ==
    {hist.placed[i] : i \in DOMAIN hist.placed}

\* C4: no order is lost to the submit/tick race. Every order that
\* submit_order appended to the pending queue is still pending or has been
\* handed to place_order by a tick; no tick removes an order from the queue
\* without processing it.
C4_NoOrderLost ==
    \A rid \in 1..hist.nsub : rid \in Pending(env) \/ rid \in Placed

\* ------------------------------------------------------ snapshot atomicity
\* The order-book depths and prices of a snapshot.
Shown(state) ==
    [order_books |-> state.order_books, prices |-> state.prices]

\* C5: snapshot atomicity. A STATE response shows the Environment as it was
\* before or after a tick, never inside one: when it shows the tick counter
\* at t, its order-book depths and prices are those tick t returned with,
\* which are those the tick after it found.
C5_SnapshotAtomic ==
    \A c \in Conns :
        ( /\ handler[c].reply.type = "STATE"
          /\ ret.op = "tick"
          /\ ~ret.raised )
        => /\ handler[c].reply.state.time = ret.time
              => Shown(handler[c].reply.state) = Shown(ret.state[1])
           /\ handler[c].reply.state.time = ret.pre.time
              => Shown(handler[c].reply.state) = Shown(GetState(ret.pre, ""))

\* ------------------------------------------------------------ partial fill
\* The orders of the book b whose id is id.
WithId(b, id) ==
    {o \in Resting(b) : o.order_id = id}

\* The quantity resting in b under id, 0 if none.
RestingQuantity(b, id) ==
    IF WithId(b, id) = {} THEN 0
    ELSE (CHOOSE o \in WithId(b, id) : TRUE).quantity

\* What the incoming order of the last call still wanted before its n-th
\* trade.
RemainingBefore(n) ==
    call.order.quantity - SumVolume(SubSeq(call.trades, 1, n - 1))

\* C11: partial fill and volume conservation for limit orders. Each trade
\* of a limit place_order has volume min(incoming remaining, resting
\* remaining); the resting order is left in the book with its quantity
\* reduced by it, or removed when nothing is left of it; and the volumes of
\* the trades plus the quantity the call left resting equal the quantity
\* placed.
C11_PartialFill ==
    (Returned /\ call.order.order_type = "limit")
    => /\ SumVolume(call.trades) + RestingQuantity(book, call.order.order_id)
            = call.order.quantity
       /\ \A n \in DOMAIN call.trades :
            LET id == RestingId(call.trades[n])
            IN  /\ call.trades[n].volume
                     = IF RemainingBefore(n) < RestingQuantity(call.pre, id)
                       THEN RemainingBefore(n)
                       ELSE RestingQuantity(call.pre, id)
                /\ RestingQuantity(book, id)
                     = RestingQuantity(call.pre, id) - call.trades[n].volume
                /\ Cardinality(WithId(book, id)) <= 1

\* A limit order larger than what was left of the resting order it met, an
\* order partly consumed by a call before: one trade of what was left, and
\* the rest of the incoming order left resting.
C11_Witness ==
    /\ Returned
    /\ call.order.order_type = "limit"
    /\ Len(call.trades) = 1
    /\ call.trades[1].volume < call.order.quantity
    /\ call.trades[1].volume
         = RestingQuantity(call.pre, RestingId(call.trades[1]))
    /\ RestingQuantity(book, call.order.order_id)
         = call.order.quantity - call.trades[1].volume
    /\ \E k \in DOMAIN call.pre.trades :
         call.pre.trades[k].seller_order = RestingId(call.trades[1])
         \/ call.pre.trades[k].buyer_order = RestingId(call.trades[1])

\* ------------------------------------------------------ end-to-end example
\* The pending queue is the example's: buy 5 at 101 by A, then sell 5 at 100
\* by B, for an instrument whose book is empty.
ExamplePending(e) ==
    /\ Len(e.pending_orders) = 2
    /\ \A i \in 1..2 :
         /\ e.pending_orders[i].symbol = "AAPL"
         /\ e.pending_orders[i].order_type = "limit"
         /\ e.pending_orders[i].volume = 5
    /\ e.pending_orders[1].side = "buy"
    /\ e.pending_orders[1].price = 101
    /\ e.pending_orders[1].agent_id = "A"
    /\ e.pending_orders[2].side = "sell"
    /\ e.pending_orders[2].price = 100
    /\ e.pending_orders[2].agent_id = "B"
    /\ BookOfFirstEmpty(e)

\* tick() has just returned from the example's queue.
ExampleTicked ==
    /\ ret.op = "tick"
    /\ ~ret.raised
    /\ tick.pc = "idle"
    /\ ExamplePending(ret.pre)

\* What the example expects of the tick, but for the trade price: one trade
\* of 5 with buyer A and seller B, A holding 5 more and B 5 less, and both
\* sides of the book empty.
ExampleOutcome ==
    /\ Len(ret.trades) = 1
    /\ ret.trades[1].volume = 5
    /\ ret.trades[1].buyer = "A"
    /\ ret.trades[1].seller = "B"
    /\ ret.trades[1].symbol = "AAPL"
    /\ Holding(env.agent_accounts, "A", "AAPL")
         = Holding(ret.pre.agent_accounts, "A", "AAPL") + 5
    /\ Holding(env.agent_accounts, "B", "AAPL")
         = Holding(ret.pre.agent_accounts, "B", "AAPL") - 5
    /\ env.instruments["AAPL"].order_book.bids = << >>
    /\ env.instruments["AAPL"].order_book.asks = << >>

\* C12 as stated: the example's tick yields one trade of volume 5, buyer A,
\* seller B, at price 101, after which A holds +5, B holds -5 and the book
\* is empty.
C12_ExampleAt101 ==
    ExampleTicked => (ExampleOutcome /\ ret.trades[1].price = 101)

\* C12, amended: the same with the trade at price 100, the limit price of
\* the sell, which is the order processed second.
C12_ExampleAt100 ==
    ExampleTicked => (ExampleOutcome /\ ret.trades[1].price = 100)

\* The example has been run.
C12_Witness ==
    /\ ExampleTicked
    /\ ret.pre.agent_accounts = EmptyDict
    /\ ExampleOutcome
    /\ ret.trades[1].price = 100
    /\ Cash(env.agent_accounts, "A") = StartCash - 500
    /\ Cash(env.agent_accounts, "B") = StartCash + 500

\* --------------------------------------------------------- last-price rule
\* The trades of ts for the instrument sym.
TradesOf(ts, sym) ==
    SelectSeq(ts, LAMBDA t : t.symbol = sym)

\* tick() has just returned.
TickReturned ==
    /\ ret.op = "tick"
    /\ ~ret.raised
    /\ tick.pc = "idle"

\* C13: last-price rule. After every tick(), each instrument for which the
\* tick produced a trade has the price of the last such trade as its price,
\* and every other instrument has the price it had before the tick; also
\* for a tick after a reset().
C13_LastPrice ==
    TickReturned
    => \A sym \in DOMAIN env.instruments :
         env.instruments[sym].price
          = IF TradesOf(ret.trades, sym) = << >>
            THEN ret.pre.instruments[sym].price
            ELSE TradesOf(ret.trades, sym)[Len(TradesOf(ret.trades, sym))].price

\* A tick() after a reset() that produced two trades for AAPL at two prices,
\* the last one the lower, and none for GOOG.
C13_Witness ==
    /\ TickReturned
    /\ hist.nresets > 0
    /\ ret.pre.time = 0
    /\ Len(ret.trades) = 2
    /\ ret.trades[1].symbol = "AAPL"
    /\ ret.trades[2].symbol = "AAPL"
    /\ ret.trades[2].price < ret.trades[1].price
    /\ env.instruments["AAPL"].price = ret.trades[2].price
    /\ env.instruments["GOOG"].price = InitialPrice("GOOG")

\* ------------------------------------------------------- unknown instrument
\* C14: an unknown instrument is rejected at submission. No order that names
\* a symbol which is not an instrument of the Environment is ever in the
\* pending queue, so that no tick meets one.
C14_UnknownNotQueued ==
    \A i \in DOMAIN env.pending_orders :
        env.pending_orders[i].symbol \in DOMAIN env.instruments

\* ------------------------------------------------------- invalid order kind
\* The step of tick() in which place_order raises for an order whose kind is
\* neither limit nor market, that order being the last of the queue.
InvalidKindRaised ==
    /\ tick.pc = "process"
    /\ tick'.pc = "raised"
    /\ tick.i + 1 = Len(env.pending_orders)
    /\ env.pending_orders[tick.i + 1].symbol \in DOMAIN env.instruments
    /\ env.pending_orders[tick.i + 1].order_type \notin OrderTypes

\* The Environment this tick() would leave had the last order of the queue
\* never been submitted: the orders before it have been processed, the queue
\* is cleared, their trades are logged and the prices updated.
AsIfNeverSubmitted ==
    UpdatePrices([env EXCEPT !.pending_orders = << >>,
                             !.trade_log = @ \o tick.all_trades])

\* C15: an invalid order kind mutates nothing. When tick() fails on an order
\* whose kind is neither limit nor market, the Environment, that order set
\* aside, is as if the order had never been submitted.
C15_InvalidKindNoEffect ==
    [][InvalidKindRaised
       => [env' EXCEPT !.pending_orders = SubSeq(@, 1, Len(@) - 1)]
           = AsIfNeverSubmitted]_vars

\* --------------------------------------------------------- failure isolation
\* C16: failure isolation of the tick loop. No request a client sends stops
\* the tick loop: the tick thread is never ended by an exception of tick(),
\* so that it goes on ticking and matches the orders submitted afterwards.
C16_TickLoopNeverStops ==
    tick.pc # "raised"

\* ----------------------------------------------------- lazy account creation
\* Every participant id carried by a pending order has an account.
SubmittersHaveAccounts ==
    \A i \in DOMAIN env.pending_orders :
        env.pending_orders[i].agent_id \in DOMAIN env.agent_accounts

\* No get_state(id) call has failed.
QueriesSucceed ==
    ret.op = "get_state" => ~ret.raised

\* C17: lazy account creation. The first reference to a participant id that
\* has no account, by submit_order of an order carrying it or by
\* get_state(id), succeeds and leaves an account for that id.
C17_LazyAccount ==
    SubmittersHaveAccounts /\ QueriesSucceed

\* ------------------------------------------------- the requester's account
\* C18: GET_STATE returns the requester's own account. The account in a
\* STATE response is the account of the participant whose id the request
\* carried, as it is when the response is made, with every trade settled for
\* that id so far.
C18_OwnAccount ==
    [][\A c \in Conns :
         (handler[c].pc = "prices" /\ handler'[c].reply.type = "STATE"
          /\ handler'[c].pc = "recv")
         => handler'[c].reply.state.account
             = << env.agent_accounts[handler[c].msg.agent_id] >>]_vars

\* ------------------------------------------------------------------ reset()
\* C19: reset() effect and frame. After reset() the tick counter is 0, the
\* trade log is empty and the bid and ask sides of every instrument are
\* empty, and every account has the cash and holdings it had before the
\* call.
C19_ResetFrame ==
    [][hist'.nresets = hist.nresets + 1
       => /\ env'.time = 0
          /\ env'.trade_log = << >>
          /\ \A sym \in DOMAIN env'.instruments :
               /\ env'.instruments[sym].order_book.bids = << >>
               /\ env'.instruments[sym].order_book.asks = << >>
          /\ env'.agent_accounts = env.agent_accounts]_vars

\* reset() has been called on an Environment with ticks made, a trade
\* logged, an order resting and accounts that have traded, and has left it
\* cleared, the accounts as they were.
C19_Witness ==
    /\ ret.op = "reset"
    /\ ret.pre.time > 0
    /\ ret.pre.trade_log # << >>
    /\ \E sym \in DOMAIN ret.pre.instruments :
         ret.pre.instruments[sym].order_book.bids # << >>
    /\ \E id \in DOMAIN ret.pre.agent_accounts :
         ret.pre.agent_accounts[id].cash # StartCash
    /\ env.time = 0
    /\ env.trade_log = << >>
    /\ \A sym \in DOMAIN env.instruments :
         env.instruments[sym].order_book = EmptyBook
    /\ env.agent_accounts = ret.pre.agent_accounts

\* ------------------------------------------------------- malformed requests
\* The message has an unknown type or lacks a required field.
Malformed(msg) ==
    \/ msg.agent_id = Missing
    \/ msg.type \notin {"PLACE_ORDER", "GET_BOOK", "GET_STATE", "GET_TIME"}

\* C20: malformed requests keep the connection open. While it handles a
\* request with an unknown type or a missing field the handler does not
\* leave its receive loop, and it comes back to conn.recv having sent an
\* error response.
C20_MalformedKeepsOpen ==
    [][\A c \in Conns :
         ( /\ handler[c].pc \in {"check", "register", "process"}
           /\ Malformed(handler[c].msg)
           /\ handler'[c] # handler[c] )
         => /\ handler'[c].pc # "closed"
            /\ handler'[c].pc = "recv" => handler'[c].reply.type = "error"]_vars

\* The same for the requests whose only fault is an unknown type: these the
\* code answers with an error response and goes on serving.
C20_UnknownTypeKeepsOpen ==
    [][\A c \in Conns :
         ( /\ handler[c].pc \in {"check", "register", "process"}
           /\ handler[c].msg.agent_id # Missing
           /\ Malformed(handler[c].msg)
           /\ handler'[c] # handler[c] )
         => /\ handler'[c].pc # "closed"
            /\ handler'[c].pc = "recv" => handler'[c].reply.type = "error"]_vars


\* ------------------------------------------------------------------- C21
\* The orders the tick() call in progress found in the pending queue when
\* its drain started.
AtDrainStart ==
    tick.pre.pending_orders

\* C21 (drain boundary): the orders a tick() call has processed so far are
\* the first ones of the queue as it was when the drain of that tick
\* started, in arrival order; an order appended by another thread after the
\* drain started is not processed by that tick.
C21_DrainBoundary ==
    tick.pc \in {"process", "clear", "raised"} =>
        /\ tick.i <= Len(AtDrainStart)
        /\ \A k \in 1..tick.i : env.pending_orders[k] = AtDrainStart[k]


\* ------------------------------------------------------------------- C22
\* The opposite side as the last call left it.
PostOpposite ==
    Opposite(book, call.order.side)

RECURSIVE DrainOrder(_)
\* The order ids of a heap in the order successive heappop calls give them:
\* the priority order of the side.
DrainOrder(heap) ==
    IF heap = << >> THEN << >>
    ELSE << heap[1].order_id >> \o DrainOrder(HeapPop(heap))

\* The ids of the orders in a heap.
IdsOf(heap) ==
    {heap[i].order_id : i \in DOMAIN heap}

\* The priority order of a heap among the orders whose ids are in ids.
DrainOrderAmong(heap, ids) ==
    SelectSeq(DrainOrder(heap), LAMBDA id : id \in ids)

\* The last call was a limit order whose matching loop began by setting
\* aside the best opposite order, which is the caller's own.
SkippedOwn ==
    /\ Returned
    /\ call.order.order_type = "limit"
    /\ call.order.quantity > 0
    /\ PreOpposite # << >>
    /\ IsSelfTrade(call.order, PreOpposite[1])

\* C22 (self-trade skip is side-effect free): after a limit place_order of
\* participant P has returned, every order of P that rested on the opposite
\* side (the skipped orders are among them) rests there with the same
\* quantity, price and timestamp, and the priority order of the opposite
\* side among the orders that rest there before and after the call is
\* unchanged.
C22_SkipRestores ==
    (Returned /\ call.order.order_type = "limit") =>
        /\ \A i \in DOMAIN PreOpposite :
             IsSelfTrade(call.order, PreOpposite[i]) =>
               \E j \in DOMAIN PostOpposite : PostOpposite[j] = PreOpposite[i]
        /\ DrainOrderAmong(PostOpposite,
                           IdsOf(PreOpposite) \cap IdsOf(PostOpposite))
           = DrainOrderAmong(PreOpposite,
                             IdsOf(PreOpposite) \cap IdsOf(PostOpposite))

\* A call that skipped its own best opposite order, then traded with part
\* of another participant's order and was filled: both rest afterwards.
C22_Witness ==
    /\ SkippedOwn
    /\ Len(call.trades) = 1
    /\ Len(PreOpposite) = 2
    /\ Len(PostOpposite) = 2

\* A call that skipped its own order and met an order that does not cross.
C22_WitnessNoCross ==
    /\ SkippedOwn
    /\ call.trades = << >>
    /\ Len(PreOpposite) = 2
    /\ \E i \in DOMAIN PreOpposite :
         /\ ~IsSelfTrade(call.order, PreOpposite[i])
         /\ ~Crosses(call.order, PreOpposite[i])

\* A call that skipped its own order and used up every other order of the
\* opposite side.
C22_WitnessExhausted ==
    /\ SkippedOwn
    /\ Len(call.trades) = 1
    /\ Len(PreOpposite) = 2
    /\ Len(PostOpposite) = 1
    /\ Opposite(book, IF call.order.side = "buy" THEN "sell" ELSE "buy")
         # << >>


\* ------------------------------------------------------------------- C23
\* The step settles a trade in which id is the buyer or the seller: it is
\* the iteration of process_orders whose update_accounts calls hist' holds.
SettlesFor(id) ==
    /\ tick.pc = "process"
    /\ tick' # tick
    /\ \E n \in DOMAIN hist'.settled :
         id \in {hist'.settled[n].trade.buyer, hist'.settled[n].trade.seller}

\* C23 (accounts change only by settlement): once a participant id has an
\* account, every step of any thread keeps it, and changes its cash or its
\* holdings only if the step settles a trade in which the participant is
\* the buyer or the seller.
C23_OnlySettlementChanges ==
    [][\A id \in DOMAIN env.agent_accounts :
          /\ id \in DOMAIN env'.agent_accounts
          /\ env'.agent_accounts[id] # env.agent_accounts[id]
               => SettlesFor(id)]_vars


\* ------------------------------------------------------------------- C24
\* The last call that ended is a tick(), which returned or raised.
TickOver ==
    /\ ret.op = "tick"
    /\ TickEnded

\* The trades the tick() that just ended added to the trade log.
LoggedByTick ==
    SubSeq(env.trade_log, Len(ret.pre.trade_log) + 1, Len(env.trade_log))

\* C24 (settled implies logged): when a tick() call has ended, normally or
\* with an error, the trade log is the one the tick found with trades added
\* at its end, and the accounts are the ones the tick found with each added
\* trade settled exactly once and no other trade settled.
C24_SettledIsLogged ==
    TickOver =>
        /\ Len(env.trade_log) >= Len(ret.pre.trade_log)
        /\ SubSeq(env.trade_log, 1, Len(ret.pre.trade_log))
             = ret.pre.trade_log
        /\ env.agent_accounts
             = SettleAll(ret.pre.agent_accounts, LoggedByTick)


\* ------------------------------------------------------------------- C25
\* C25 (at-most-once application of orders): over any sequence of
\* submit_order and tick() calls, ticks that raise part-way through the
\* queue included, no submitted request is handed to place_order twice.
C25_PlacedAtMostOnce ==
    \A i, j \in DOMAIN hist.placed :
        i # j => hist.placed[i] # hist.placed[j]


\* ------------------------------------------------------------------- C26
\* C26 (tick counter is advanced last): while a tick() call is matching,
\* settling and logging its orders and updating the prices, the counter has
\* the value the call found; when the call has returned, the counter is
\* that value plus 1 and every trade of the call carries that value as its
\* stamp, so the trades of the first tick after start or reset carry 0.
C26_CounterAdvancedLast ==
    /\ tick.pc \in {"process", "clear", "log", "prices"}
         => env.time = tick.pre.time
    /\ TickReturned
         => /\ env.time = ret.pre.time + 1
            /\ \A n \in DOMAIN ret.trades :
                 ret.trades[n].time = ret.pre.time

\* The second part alone: the stamps of the trades of a tick() that
\* returned.
C26_StampIsOldCounter ==
    TickReturned
      => \A n \in DOMAIN ret.trades : ret.trades[n].time = ret.pre.time


\* ------------------------------------------------------------------- C27
\* The volume the last call traded with the resting order o.
FilledOf(o) ==
    SumVolume(SelectSeq(call.trades, LAMBDA t : RestingId(t) = o.order_id))

\* C27 (resting quantities are positive): between place_order calls every
\* order resting in the bids or the asks has a quantity above 0; a call
\* with quantity 0 returns no trades and leaves the book as it was; and a
\* resting order whose whole quantity a call, limit or market, has traded
\* rests no more.
C27_RestingPositive ==
    /\ \A o \in Resting(book) : o.quantity > 0
    /\ (Returned /\ call.order.quantity = 0)
         => (call.trades = << >> /\ book = call.pre)
    /\ Returned
         => \A i \in DOMAIN PreOpposite :
              FilledOf(PreOpposite[i]) = PreOpposite[i].quantity
                => PreOpposite[i].order_id \notin IdsOf(PostOpposite)

\* A limit call with quantity 0 that found a resting order of another
\* participant it crosses, left by an earlier partial fill.
C27_Witness ==
    /\ Returned
    /\ call.order.quantity = 0
    /\ call.order.order_type = "limit"
    /\ call.pre.trades # << >>
    /\ PreOpposite # << >>
    /\ ~IsSelfTrade(call.order, PreOpposite[1])
    /\ Crosses(call.order, PreOpposite[1])

\* A market call that traded the whole quantity of a resting order.
C27_WitnessFilled ==
    /\ Returned
    /\ call.order.order_type = "market"
    /\ \E i \in DOMAIN PreOpposite :
         FilledOf(PreOpposite[i]) = PreOpposite[i].quantity


\* ------------------------------------------------------------------- C28
\* o is the order of this side that matching takes first: none of the side
\* has a better price, and none with the same price an earlier timestamp.
FirstInPriority(o, heap) ==
    /\ o = heap[1]
    /\ \A i \in DOMAIN heap :
         \/ SortPrice(heap[i]) > SortPrice(o)
         \/ /\ heap[i].price = o.price
            /\ heap[i].timestamp >= o.timestamp

\* C28 (best_bid and best_ask agree with matching priority): in every book
\* state best_bid() returns the resting buy order matching would take
\* first, the highest-priced and among those the earliest, best_ask() the
\* resting sell order matching would take first, the lowest-priced and
\* among those the earliest, and each returns None exactly when its side
\* is empty.
C28_BestAgreesWithPriority ==
    /\ (BestBid(book) = << >>) <=> (book.bids = << >>)
    /\ (BestAsk(book) = << >>) <=> (book.asks = << >>)
    /\ book.bids # << >> => FirstInPriority(BestBid(book)[1], book.bids)
    /\ book.asks # << >> => FirstInPriority(BestAsk(book)[1], book.asks)

\* Three bids rest, two of them at the highest price with different
\* timestamps, and the later of the two comes before the cheaper one in the
\* list.
C28_Witness ==
    /\ Len(book.bids) = 3
    /\ \E i, j, k \in DOMAIN book.bids :
         /\ i < j
         /\ j < k
         /\ book.bids[i].price = book.bids[j].price
         /\ book.bids[i].timestamp < book.bids[j].timestamp
         /\ book.bids[k].price < book.bids[i].price


\* ------------------------------------------------------------------- C29
\* The order the last call found resting that trade t was made with.
RestingOf(t) ==
    CHOOSE o \in Resting(call.pre) : o.order_id = RestingId(t)

\* The limit prices of the seller and of the buyer of trade t of the last
\* call.
SellerLimit(t) ==
    IF call.order.side = "sell" THEN call.order.price ELSE RestingOf(t).price

BuyerLimit(t) ==
    IF call.order.side = "buy" THEN call.order.price ELSE RestingOf(t).price

\* The incoming order of the last call and the resting order o do not
\* cross: the bid is below the ask.
BidBelowAsk(o) ==
    IF call.order.side = "buy" THEN call.order.price < o.price
    ELSE o.price < call.order.price

\* C29 (the crossing test bounds every limit trade): every trade of a limit
\* place_order call is with a resting order the incoming one crosses, so
\* its price lies between the seller's limit and the buyer's limit,
\* inclusive; and when the incoming order crosses no order of the opposite
\* side, the call makes no trade, the opposite side holds the orders it
\* held and the incoming order rests with its whole quantity.
C29_CrossingBoundsTrades ==
    (Returned /\ call.order.order_type = "limit") =>
        /\ \A n \in DOMAIN call.trades :
             /\ SellerLimit(call.trades[n]) <= call.trades[n].price
             /\ call.trades[n].price <= BuyerLimit(call.trades[n])
        /\ (\A i \in DOMAIN PreOpposite : BidBelowAsk(PreOpposite[i]))
             => /\ call.trades = << >>
                /\ Len(PostOpposite) = Len(PreOpposite)
                /\ \A i \in DOMAIN PreOpposite :
                     \E j \in DOMAIN PostOpposite :
                       PostOpposite[j] = PreOpposite[i]
                /\ call.order \in Resting(book)

\* A limit call that traded with a resting order priced apart from it.
C29_Witness ==
    /\ Returned
    /\ call.order.order_type = "limit"
    /\ call.trades # << >>
    /\ SellerLimit(call.trades[1]) < BuyerLimit(call.trades[1])

\* A limit call that found an order of another participant on the opposite
\* side and crosses none: both rest.
C29_WitnessNoCross ==
    /\ Returned
    /\ call.order.order_type = "limit"
    /\ PreOpposite # << >>
    /\ \A i \in DOMAIN PreOpposite :
         /\ BidBelowAsk(PreOpposite[i])
         /\ PreOpposite[i].agent_id # call.order.agent_id
    /\ call.order \in Resting(book)


\* ------------------------------------------------------------------- C30
RECURSIVE TotalCash(_)
\* The cash summed over these accounts.
TotalCash(accounts) ==
    IF DOMAIN accounts = {} THEN 0
    ELSE LET id == CHOOSE x \in DOMAIN accounts : TRUE
         IN  accounts[id].cash
             + TotalCash([x \in DOMAIN accounts \ {id} |-> accounts[x]])

RECURSIVE TotalHolding(_, _)
\* The holdings of sym summed over these accounts.
TotalHolding(accounts, sym) ==
    IF DOMAIN accounts = {} THEN 0
    ELSE LET id == CHOOSE x \in DOMAIN accounts : TRUE
         IN  Holding(accounts, id, sym)
             + TotalHolding([x \in DOMAIN accounts \ {id} |-> accounts[x]],
                            sym)

\* C30 (global conservation): after any run of submit_order, tick() and
\* reset() calls of one caller, the holdings of every symbol summed over
\* all accounts are 0 and the cash summed over all accounts is the number
\* of accounts times the starting cash, also when a market order has traded
\* with a resting order of its own participant.
C30_Conservation ==
    TickEnded =>
        /\ \A sym \in Symbols : TotalHolding(env.agent_accounts, sym) = 0
        /\ TotalCash(env.agent_accounts)
             = Cardinality(DOMAIN env.agent_accounts) * StartCash

\* A tick() that returned two trades, one between two participants and one
\* of a market order with a resting order of its own participant, and left
\* an account with holdings and with cash other than the starting cash.
C30_Witness ==
    /\ TickReturned
    /\ \E n, k \in DOMAIN ret.trades :
         /\ ret.trades[n].buyer # ret.trades[n].seller
         /\ ret.trades[k].buyer = ret.trades[k].seller
    /\ \E id \in DOMAIN env.agent_accounts :
         /\ Holding(env.agent_accounts, id, "AAPL") # 0
         /\ env.agent_accounts[id].cash # StartCash


\* ------------------------------------------------------------------- C31
\* The sequence b begins with the sequence a.
IsPrefix(a, b) ==
    /\ Len(a) <= Len(b)
    /\ SubSeq(b, 1, Len(a)) = a

\* The last call that ended is a reset(): no tick() has ended since, and a
\* tick() in progress is the first one after the reset.
SinceReset ==
    ret.op = "reset"

\* The first tick() after the reset has handed the first tick.i requests of
\* the queue it found to place_order, in order.
PlacedInOrder ==
    /\ tick.i <= Len(tick.pre.pending_orders)
    /\ tick.i <= Len(hist.placed)
    /\ \A k \in 1..tick.i :
         hist.placed[Len(hist.placed) - tick.i + k]
           = tick.pre.pending_orders[k].rid

\* C31 (reset() leaves the pending queue and the last prices alone): after
\* reset() the pending queue holds the requests it held, then those
\* submitted since, and every instrument has the price it had; the first
\* tick() after the reset finds these requests, hands them to place_order
\* in order, and when it comes to its return has placed all of them, has
\* settled their trades and has them, and no others, in the trade log.
C31_ResetKeepsQueue ==
    SinceReset =>
        /\ tick.pc # "return"
             => \A sym \in DOMAIN env.instruments :
                  env.instruments[sym].price = ret.pre.instruments[sym].price
        /\ TickEnded => IsPrefix(ret.pre.pending_orders, env.pending_orders)
        /\ ~TickEnded
             => /\ IsPrefix(ret.pre.pending_orders, tick.pre.pending_orders)
                /\ PlacedInOrder
        /\ tick.pc \in {"clear", "log", "prices", "return"}
             => tick.i = Len(tick.pre.pending_orders)
        /\ tick.pc = "return"
             => /\ env.trade_log = tick.all_trades
                /\ env.agent_accounts
                     = SettleAll(tick.pre.agent_accounts, tick.all_trades)

\* reset() found two requests pending, and the first tick() after it has
\* placed both, matched them into a trade, settled and logged it, and is
\* about to return.
C31_Witness ==
    /\ SinceReset
    /\ tick.pc = "return"
    /\ Len(ret.pre.pending_orders) = 2
    /\ tick.i = 2
    /\ tick.all_trades # << >>
    /\ env.trade_log = tick.all_trades
    /\ \E id \in DOMAIN env.agent_accounts :
         env.agent_accounts[id].cash # StartCash

\* reset() found a request pending and an instrument whose price a trade
\* had moved, and the first tick() after it has placed the request.
C31_WitnessPrice ==
    /\ SinceReset
    /\ tick.pc = "return"
    /\ ret.pre.pending_orders # << >>
    /\ tick.i = Len(tick.pre.pending_orders)
    /\ ret.pre.instruments["AAPL"].price # InitialPrice("AAPL")
    /\ env.instruments["AAPL"].price = ret.pre.instruments["AAPL"].price

====
